---- MODULE Spec2Model ----
(***************************************************************************)
(* solana_aggregator: the epoch sweep (aggregator/mod.rs), the block       *)
(* parser (aggregator/processor.rs), the RPC boundary                      *)
(* (aggregator/retrieval.rs) and the SQLite upserts (db/mod.rs).           *)
(*                                                                         *)
(* Option<T> is a sequence of length 0 (None) or 1 (Some).  Result<T, E>   *)
(* is a record [ok, v, e].                                                 *)
(***************************************************************************)
EXTENDS Integers, Sequences, FiniteSets, TLC

VARIABLES
    pc,             \* position of the aggregate_blocks task
    result,         \* value aggregate_blocks returned: <<>> while running
    config,         \* Config {retry_attempts}
    epoch_info,     \* Option<EpochInfo>, Some once get_epoch_info returned Ok
    slot,           \* loop variable of `for slot in start_slot..=end_slot`
    attempts,       \* get_block_with_retry: attempts
    wait_time,      \* get_block_with_retry: wait_time (seconds)
    block,          \* the UiConfirmedBlock in hand (Option)
    parse_result,   \* the Result parse_block returned for `block` (Option)
    tx_index,       \* position of `transaction` in parsed_response (1-based)
    account_index,  \* position in [sender, receiver] of the inner loop (1-based)
    lock,           \* holder of the tokio Mutex around the Connection
    transactions,   \* table transactions: set of rows
    accounts,       \* table accounts: set of rows
    tx_arg,         \* argument pair of a parse_transaction call
    tx_result,      \* Option of the Result that call returned
    handlers,       \* the request handler tasks of the server: position, query, response
    waiters,        \* the tasks waiting in Mutex::lock, in the order they asked
    hist            \* history of the run (observations only, never read by the program)

vars == <<pc, result, config, epoch_info, slot, attempts, wait_time, block,
          parse_result, tx_index, account_index, lock, transactions, accounts,
          tx_arg, tx_result, handlers, waiters, hist>>

(***************************************************************************)
(* Bounds of the model.                                                    *)
(***************************************************************************)
MaxRetries == 3
MaxSweepRetries == 1
MaxAbsoluteSlot == 1
MaxSlotsInEpoch == 2
MaxInstructions == 3
MaxBlockTransactions == 2
MaxHandlers == 2

(***************************************************************************)
(* Option and Result.                                                      *)
(***************************************************************************)
None == <<>>
Some(x) == <<x>>
IsSome(o) == Len(o) = 1
Unwrap(o) == o[1]

Ok(x) == [ok |-> TRUE, v |-> x, e |-> ""]
Err(msg) == [ok |-> FALSE, v |-> <<>>, e |-> msg]

(***************************************************************************)
(* Data of the RPC boundary: EncodedTransaction, UiMessage, UiInstruction. *)
(***************************************************************************)
SYSTEM_PROGRAM_ID == "11111111111111111111111111111111"
COMPUTE_BUDGET_ID == "ComputeBudget111111111111111111111111111111"

NoPayload == [type |-> "", info |-> <<>>]

\* UiInstruction::Compiled
CompiledInstruction ==
    [form |-> "Compiled", program_id |-> "", parsed |-> NoPayload]

\* UiInstruction::Parsed(UiParsedInstruction::PartiallyDecoded)
PartiallyDecodedInstruction(program) ==
    [form |-> "PartiallyDecoded", program_id |-> program, parsed |-> NoPayload]

\* UiInstruction::Parsed(UiParsedInstruction::Parsed {program_id, parsed})
ParsedInstructionOf(program, payload) ==
    [form |-> "Parsed", program_id |-> program, parsed |-> payload]

TransferPayload(src, dst, lamports) ==
    [type |-> "transfer",
     info |-> [source |-> src, destination |-> dst, lamports |-> lamports]]

\* system createAccount: its info has no `destination`
CreateAccountPayload(src, new, lamports) ==
    [type |-> "createAccount",
     info |-> [source |-> src, newAccount |-> new, lamports |-> lamports, space |-> 0]]

JsonTransaction(sigs, format, instrs) ==
    [encoding |-> "Json", signatures |-> sigs,
     message |-> [format |-> format, instructions |-> instrs]]

BinaryTransaction ==
    [encoding |-> "Binary", signatures |-> <<>>,
     message |-> [format |-> "Raw", instructions |-> <<>>]]

(***************************************************************************)
(* types.rs: serde_json::from_value::<ParsedInstruction>.  The derive      *)
(* needs `type` and `info` with source, destination and a u64 lamports;    *)
(* unknown fields are ignored.                                             *)
(***************************************************************************)
from_value(payload) ==
    IF /\ payload.type # ""
       /\ {"source", "destination", "lamports"} \subseteq DOMAIN payload.info
       /\ payload.info.lamports >= 0
    THEN Ok([info |-> [source |-> payload.info.source,
                       destination |-> payload.info.destination,
                       lamports |-> payload.info.lamports],
             instruction_type |-> payload.type])
    ELSE Err("Failed to deserialize transfer info")

\* a signature taken from the end of the list
get_transaction_signature_last(transaction) ==
    IF transaction.encoding = "Json"
    THEN [ok |-> TRUE, v |-> transaction.signatures[Len(transaction.signatures)],
          e |-> ""]
    ELSE [ok |-> FALSE, v |-> "", e |-> "Unsupported transaction encoding"]

\* a signature extraction that accepts every encoding
get_transaction_signature_lenient(transaction) ==
    [ok |-> TRUE,
     v |-> IF transaction.signatures = <<>> THEN "" ELSE transaction.signatures[1],
     e |-> ""]

(***************************************************************************)
(* processor.rs: get_transaction_signature                                 *)
(***************************************************************************)
get_transaction_signature(transaction) ==
    IF transaction.encoding = "Json"
    THEN [ok |-> TRUE, v |-> transaction.signatures[1], e |-> ""]
    ELSE [ok |-> FALSE, v |-> "", e |-> "Unsupported transaction encoding"]

(***************************************************************************)
(* processor.rs: parse_transaction.  scan_instructions is its `for         *)
(* instruction in &parsed_message.instructions` loop from position i on.   *)
(***************************************************************************)
\* a scan that passes over a system instruction it cannot deserialize
RECURSIVE scan_instructions_lenient(_, _, _)
scan_instructions_lenient(instructions, i, timestamp) ==
    IF i > Len(instructions)
    THEN Ok(None)
    ELSE LET instruction == instructions[i]
             transfer_info == from_value(instruction.parsed)
         IN  IF /\ instruction.form = "Parsed"
                /\ instruction.program_id = SYSTEM_PROGRAM_ID
                /\ transfer_info.ok
             THEN Ok(Some([sender |-> transfer_info.v.info.source,
                           receiver |-> transfer_info.v.info.destination,
                           amount |-> transfer_info.v.info.lamports,
                           timestamp |-> timestamp]))
             ELSE scan_instructions_lenient(instructions, i + 1, timestamp)

RECURSIVE scan_instructions(_, _, _)
scan_instructions(instructions, i, timestamp) ==
    IF i > Len(instructions)
    THEN Ok(None)
    ELSE LET instruction == instructions[i] IN
         IF instruction.form = "Parsed" /\ instruction.program_id = SYSTEM_PROGRAM_ID
         THEN LET transfer_info == from_value(instruction.parsed) IN
              IF transfer_info.ok
              THEN Ok(Some([sender |-> transfer_info.v.info.source,
                            receiver |-> transfer_info.v.info.destination,
                            amount |-> transfer_info.v.info.lamports,
                            timestamp |-> timestamp]))
              ELSE Err(transfer_info.e)
         ELSE scan_instructions(instructions, i + 1, timestamp)

parse_transaction(transaction, timestamp) ==
    IF transaction.encoding = "Json"
    THEN IF transaction.message.format = "Parsed"
         THEN scan_instructions(transaction.message.instructions, 1, timestamp)
         ELSE Err("Unsupported transaction message format")
    ELSE Err("Unsupported transaction encoding")

(***************************************************************************)
(* processor.rs: parse_block.  parse_from is its `for transaction_with_meta*)
(* in transactions` loop from position i on, with the entries pushed so    *)
(* far.                                                                    *)
(***************************************************************************)
\* a loop that returns the error of a transaction parse_transaction rejects
RECURSIVE parse_from_strict(_, _, _, _)
parse_from_strict(txs, i, block_time, transaction_details) ==
    IF i > Len(txs)
    THEN Ok(transaction_details)
    ELSE LET tx_signature == get_transaction_signature(txs[i])
             parsed == parse_transaction(txs[i], block_time)
         IN  IF ~tx_signature.ok
             THEN Err(tx_signature.e)
             ELSE IF parsed.ok
                  THEN parse_from_strict(txs, i + 1, block_time,
                           Append(transaction_details,
                                  <<tx_signature.v, txs[i], parsed.v>>))
                  ELSE Err(parsed.e)

\* a loop that pushes an entry only for a transaction with details
RECURSIVE parse_from_transfers_only(_, _, _, _)
parse_from_transfers_only(txs, i, block_time, transaction_details) ==
    IF i > Len(txs)
    THEN Ok(transaction_details)
    ELSE LET tx_signature == get_transaction_signature(txs[i])
             parsed == parse_transaction(txs[i], block_time)
         IN  IF ~tx_signature.ok
             THEN Err(tx_signature.e)
             ELSE IF parsed.ok /\ IsSome(parsed.v)
                  THEN parse_from_transfers_only(txs, i + 1, block_time,
                           Append(transaction_details,
                                  <<tx_signature.v, txs[i], parsed.v>>))
                  ELSE parse_from_transfers_only(txs, i + 1, block_time,
                                                 transaction_details)

RECURSIVE parse_from(_, _, _, _)
parse_from(txs, i, block_time, transaction_details) ==
    IF i > Len(txs)
    THEN Ok(transaction_details)
    ELSE LET tx_signature == get_transaction_signature(txs[i])
             parsed == parse_transaction(txs[i], block_time)
         IN  IF ~tx_signature.ok
             THEN Err(tx_signature.e)
             ELSE IF parsed.ok
                  THEN parse_from(txs, i + 1, block_time,
                           Append(transaction_details,
                                  <<tx_signature.v, txs[i], parsed.v>>))
                  ELSE parse_from(txs, i + 1, block_time, transaction_details)

parse_block(b) ==
    IF IsSome(b.transactions)
    THEN parse_from(Unwrap(b.transactions), 1, b.block_time, <<>>)
    ELSE Ok(<<>>)

(***************************************************************************)
(* The environment: what the RPC node and SQLite may answer.               *)
(***************************************************************************)
BlockTimes == {None, Some(1720421680)}
RpcErrors == {"timeout", "slot skipped"}

TxTransferA ==
    JsonTransaction(<<"sig1", "sig3">>, "Parsed",
        <<CompiledInstruction,
          ParsedInstructionOf(SYSTEM_PROGRAM_ID, TransferPayload("acc1", "acc2", 967))>>)
TxTransferB ==
    JsonTransaction(<<"sig2">>, "Parsed",
        <<ParsedInstructionOf(SYSTEM_PROGRAM_ID, TransferPayload("acc2", "acc1", 5))>>)
TxNoTransfer ==
    JsonTransaction(<<"sig3">>, "Parsed",
        <<ParsedInstructionOf(COMPUTE_BUDGET_ID, NoPayload)>>)

SeqsUpTo(S, n) == UNION {[1..k -> S] : k \in 0..n}

\* the blocks get_block may return during a sweep
SweepBlocks ==
    {[block_time |-> Some(1720421680),
      transactions |-> Some(<<TxTransferA, TxNoTransfer>>)],
     [block_time |-> None,
      transactions |-> Some(<<TxTransferB>>)],
     [block_time |-> Some(1720421680),
      transactions |-> Some(<<TxTransferA, BinaryTransaction>>)],
     [block_time |-> None,
      transactions |-> None]}

\* rows left in solana.db by an earlier run
OldTransactionRow ==
    [transaction_id |-> "sig1", timestamp |-> 0, block_height |-> 0,
     raw_transaction |-> "old"]
OldAccountRow ==
    [account_id |-> "acc1", estimated_balance |-> 0,
     related_transactions |-> <<"json", <<"sig0">>>>]

\* EpochInfo values the node can report: slot_index counts the slots of the
\* epoch already passed, so slot_index <= absolute_slot and
\* slot_index < slots_in_epoch
EpochInfos ==
    {i \in [absolute_slot : 0..MaxAbsoluteSlot, slot_index : 0..MaxAbsoluteSlot,
            slots_in_epoch : 1..MaxSlotsInEpoch] :
        i.slot_index <= i.absolute_slot /\ i.slot_index < i.slots_in_epoch}

(***************************************************************************)
(* mod.rs: aggregate_blocks, lines 53-54                                   *)
(***************************************************************************)
start_slot_of(info) == info.absolute_slot - info.slot_index

\* a window that leaves out its last slot
end_slot_exclusive(info) == start_slot_of(info) + info.slots_in_epoch - 1

end_slot_of(info) == start_slot_of(info) + info.slots_in_epoch

start_slot == start_slot_of(Unwrap(epoch_info))
end_slot == end_slot_of(Unwrap(epoch_info))

\* the Ok value of parse_block bound at line 62
parsed_response == Unwrap(parse_result).v

(***************************************************************************)
(* db/mod.rs: INSERT OR REPLACE by primary key                             *)
(***************************************************************************)
to_string(value) == <<"json", value>>

\* a plain INSERT that leaves the row of the same key in place
insert_or_update_transaction_insert_only(table, record) ==
    table \cup {[transaction_id |-> record.transaction_id,
                 timestamp |-> record.timestamp,
                 block_height |-> record.block_height,
                 raw_transaction |-> record.raw_transaction]}

\* a write that leaves its row alone in the table
insert_or_update_transaction_truncate(table, record) ==
    {[transaction_id |-> record.transaction_id,
      timestamp |-> record.timestamp,
      block_height |-> record.block_height,
      raw_transaction |-> record.raw_transaction]}

insert_or_update_transaction(table, record) ==
    {row \in table : row.transaction_id # record.transaction_id}
        \cup {[transaction_id |-> record.transaction_id,
               timestamp |-> record.timestamp,
               block_height |-> record.block_height,
               raw_transaction |-> record.raw_transaction]}

\* an upsert that appends to the list the row already holds
insert_or_update_account_merge(table, record) ==
    LET old == {row \in table : row.account_id = record.account_id}
        held == IF old = {} THEN <<>>
                ELSE (CHOOSE row \in old : TRUE).related_transactions[2]
    IN  {row \in table : row.account_id # record.account_id}
            \cup {[account_id |-> record.account_id,
                   estimated_balance |-> record.estimated_balance,
                   related_transactions |->
                       to_string(held \o record.related_transactions)]}

\* a write that drops the rows of the other accounts
insert_or_update_account_replace_all(table, record) ==
    {[account_id |-> record.account_id,
      estimated_balance |-> record.estimated_balance,
      related_transactions |-> to_string(record.related_transactions)]}

insert_or_update_account(table, record) ==
    LET transactions_json == to_string(record.related_transactions) IN
    {row \in table : row.account_id # record.account_id}
        \cup {[account_id |-> record.account_id,
               estimated_balance |-> record.estimated_balance,
               related_transactions |-> transactions_json]}

(***************************************************************************)
(* mod.rs: get_block_with_retry                                            *)
(***************************************************************************)
InitialWaitTime == 2

\* a guard that gives up one attempt early
may_retry_one_less(n, retries) == n + 1 < retries

\* line 129: the guard `attempts < retries`
may_retry(n, retries) == n < retries

\* a backoff that grows by a constant
backoff_linear(w) == w + 2

\* line 133: wait_time *= 2
backoff(w) == w * 2

\* retries is a u8 (types.rs 36), wait_time a u64 (line 124, fixed by
\* Duration::from_secs on line 132)
U8Max == 255
U64Bits == 64

\* a u64 as its bits, the lowest first
RECURSIVE Bits(_, _)
Bits(n, len) == IF len = 0 THEN <<>> ELSE <<n % 2>> \o Bits(n \div 2, len - 1)

u64(n) == Bits(n, U64Bits)

\* line 133 in the width of wait_time: the product leaves the u64 range when
\* the highest bit is set, and the bits that stay are those of the product
\* modulo 2^64
mul2_overflows(w) == w[U64Bits] = 1
mul2_wrapping(w) == <<0>> \o SubSeq(w, 1, U64Bits - 1)

(***************************************************************************)
(* db/mod.rs: the lookups.  serde_json::from_str undoes to_string.         *)
(***************************************************************************)
from_str(text) ==
    IF Len(text) = 2 /\ text[1] = "json"
    THEN Ok(text[2])
    ELSE Err("invalid JSON")

get_transaction(table, tx_id) ==
    LET rows == {row \in table : row.transaction_id = tx_id} IN
    IF rows # {}
    THEN LET row == CHOOSE r \in rows : TRUE IN
         Ok(Some([transaction_id |-> row.transaction_id,
                  timestamp |-> row.timestamp,
                  block_height |-> row.block_height,
                  raw_transaction |-> row.raw_transaction]))
    ELSE Ok(None)

\* a lookup that hands out the stored text of related_transactions
get_account_raw(table, account_id) ==
    LET rows == {row \in table : row.account_id = account_id} IN
    IF rows # {}
    THEN LET row == CHOOSE r \in rows : TRUE
         IN  Ok(Some([account_id |-> row.account_id,
                      estimated_balance |-> row.estimated_balance,
                      related_transactions |-> row.related_transactions]))
    ELSE Ok(None)

get_account(table, account_id) ==
    LET rows == {row \in table : row.account_id = account_id} IN
    IF rows # {}
    THEN LET row == CHOOSE r \in rows : TRUE
             related_transactions == from_str(row.related_transactions)
         IN  IF related_transactions.ok
             THEN Ok(Some([account_id |-> row.account_id,
                           estimated_balance |-> row.estimated_balance,
                           related_transactions |-> related_transactions.v]))
             ELSE Err(related_transactions.e)
    ELSE Ok(None)

(***************************************************************************)
(* server/mod.rs: the request handlers.  Each request runs as its own      *)
(* task; at most MaxHandlers are in flight.                                *)
(***************************************************************************)
Handlers == 1..MaxHandlers

\* the sweep's name among the waiters; handler i waits as i
SweepTask == 0

\* the requests a client may send: GET /transaction and GET /accountid
Queries ==
    {[kind |-> "transaction", id |-> "sig1"],
     [kind |-> "account", id |-> "acc2"]}

IdleHandler == [pc |-> "idle", query |-> None, response |-> None]

JsonResponse(record) == [status |-> 200, json |-> Some(record), message |-> ""]

build_error_response(status, message) ==
    [status |-> status, json |-> None, message |-> message]

\* the match of get_transaction_handler
transaction_response(found) ==
    IF found.ok
    THEN IF IsSome(found.v)
         THEN JsonResponse(Unwrap(found.v))
         ELSE build_error_response(404, "Transaction not found")
    ELSE build_error_response(500, "Internal server error")

\* the match of get_account_handler
account_response(found) ==
    IF found.ok
    THEN IF IsSome(found.v)
         THEN JsonResponse(Unwrap(found.v))
         ELSE build_error_response(404, "Account not found")
    ELSE build_error_response(500, "Internal server error")

(***************************************************************************)
(* The sweep.                                                              *)
(***************************************************************************)
HistInit(txs, accs) ==
    [epoch_calls |-> 0,         \* get_epoch_info calls made
     fetched |-> <<>>,          \* slots get_block_with_retry was called for, in order
     call_log |-> <<>>,         \* the current get_block_with_retry call, in order:
                                \* <<"get_block", result>> and <<"sleep", seconds>>
     call_return |-> None,      \* what the current call returned
     failed |-> {},             \* slots whose fetch failed
     unparsed |-> {},           \* slots whose block parse_block rejected
     parse_error |-> None,      \* Some(error logged for the last rejected block)
     processed |-> {},          \* slots whose parsed block was handed to the writes
     written |-> {},            \* slots a store write was issued for
     write_failure |-> None,    \* Some(tables and fetched when a store write failed)
     write_log |-> <<>>,        \* the store writes issued for the current slot, in
                                \* order: [table, record, ok]
     given |-> None,            \* Some(block the loop body was entered with), SpecSlot
     last_transfer |-> {},      \* <<account, id>>: the last transfer with all three
                                \* writes done that had the account as sender or receiver
     lookups |-> [i \in Handlers |-> 0],
                                \* lookups a handler made since it asked for the lock
     unguarded |-> {},          \* parties that issued a statement without the lock
     overtaken |-> [i \in Handlers |-> 0],
                                \* times the sweep was granted the lock while the
                                \* handler has been waiting for it
     overflowed |-> FALSE,      \* wait_time *= 2 left the u64 range
     chain |-> <<>>,            \* SpecRerun: per slot, Some(block the node has) or
                                \* None when every get_block of the slot fails
     run |-> 1,                 \* SpecRerun: 1 in the first sweep, 2 in the second
     first_run |-> None,        \* SpecRerun: Some(how the first sweep began and ended)
     upserted |->               \* per table and id, the record of the last upsert
         {[table |-> "transactions", id |-> r.transaction_id, record |-> r] :
             r \in txs}
         \cup {[table |-> "accounts", id |-> r.account_id,
                record |-> [account_id |-> r.account_id,
                            estimated_balance |-> r.estimated_balance,
                            related_transactions |-> r.related_transactions[2]]] :
                   r \in accs},
     transactions0 |-> txs,     \* the tables when the sweep started
     accounts0 |-> accs]

Init ==
    /\ pc = "epoch"
    /\ result = None
    /\ config \in [retry_attempts : 0..MaxSweepRetries]
    /\ epoch_info = None
    /\ slot = 0
    /\ attempts = 0
    /\ wait_time = InitialWaitTime
    /\ block = None
    /\ parse_result = None
    /\ tx_index = 1
    /\ account_index = 1
    /\ lock = "free"
    /\ \E old \in BOOLEAN :
          /\ transactions = IF old THEN {OldTransactionRow} ELSE {}
          /\ accounts = IF old THEN {OldAccountRow} ELSE {}
    /\ tx_arg = None
    /\ tx_result = None
    /\ handlers = [i \in Handlers |-> IdleHandler]
    /\ waiters = <<>>
    /\ hist = HistInit(transactions, accounts)

\* a sweep that starts the window over after its last slot
NextSlot_again(h) ==
    /\ block' = None
    /\ parse_result' = None
    /\ tx_index' = 1
    /\ account_index' = 1
    /\ attempts' = 0
    /\ wait_time' = InitialWaitTime
    /\ pc' = "fetch"
    /\ result' = result
    /\ slot' = IF slot = end_slot THEN start_slot ELSE slot + 1
    /\ hist' = [h EXCEPT !.fetched = Append(@, slot')]

\* the body of the for loop is over for `slot`: next iteration, or line 101
NextSlot(h) ==
    /\ block' = None
    /\ parse_result' = None
    /\ tx_index' = 1
    /\ account_index' = 1
    /\ attempts' = 0
    /\ wait_time' = InitialWaitTime
    /\ IF slot = end_slot
       THEN /\ pc' = "done"
            /\ result' = Some(Ok(<<>>))
            /\ slot' = slot
            /\ hist' = h
       ELSE /\ pc' = "fetch"
            /\ result' = result
            /\ slot' = slot + 1
            /\ hist' = [h EXCEPT !.fetched = Append(@, slot + 1)]

\* `?` on an error: aggregate_blocks returns it, dropping the guard it holds
ReturnErr(msg, h) ==
    /\ pc' = "done"
    /\ result' = Some(Err(msg))
    /\ hist' = h
    /\ UNCHANGED <<slot, attempts, wait_time, block, parse_result, tx_index,
                   account_index>>

\* an epoch-info failure that is tried again
on_epoch_info_error_retry(h) ==
    /\ pc' = "epoch"
    /\ hist' = h
    /\ UNCHANGED <<result, epoch_info, slot, attempts, wait_time, block,
                   parse_result, tx_index, account_index>>

\* line 49, the call failed
on_epoch_info_error(h) ==
    /\ ReturnErr("Failed to get epoch info", h)
    /\ UNCHANGED epoch_info

GetEpochInfoErr ==
    /\ pc = "epoch"
    /\ on_epoch_info_error([hist EXCEPT !.epoch_calls = @ + 1])
    /\ UNCHANGED <<config, lock, transactions, accounts, tx_arg, tx_result, handlers, waiters>>

GetEpochInfoOk ==
    /\ pc = "epoch"
    /\ \E info \in EpochInfos :
          /\ epoch_info' = Some(info)
          /\ IF start_slot_of(info) <= end_slot_of(info)
             THEN /\ pc' = "fetch"
                  /\ result' = result
                  /\ slot' = start_slot_of(info)
                  /\ hist' = [hist EXCEPT !.epoch_calls = @ + 1,
                                          !.fetched = <<start_slot_of(info)>>]
             ELSE /\ pc' = "done"
                  /\ result' = Some(Ok(<<>>))
                  /\ slot' = slot
                  /\ hist' = [hist EXCEPT !.epoch_calls = @ + 1]
    /\ attempts' = 0
    /\ wait_time' = InitialWaitTime
    /\ UNCHANGED <<config, block, parse_result, tx_index, account_index, lock,
                   transactions, accounts, tx_arg, tx_result, handlers, waiters>>

\* line 128
GetBlockOk ==
    /\ pc = "fetch"
    /\ \E b \in SweepBlocks :
          /\ block' = Some(b)
          /\ hist' = [hist EXCEPT !.call_log = Append(@, <<"get_block", Ok(b)>>),
                                  !.call_return = Some(Ok(b))]
    /\ pc' = "parse"
    /\ UNCHANGED <<result, config, epoch_info, slot, attempts, wait_time,
                   parse_result, tx_index, account_index, lock, transactions,
                   accounts, tx_arg, tx_result, handlers, waiters>>

\* lines 129-132: the attempt failed and is retried; the task sleeps wait_time
GetBlockRetry ==
    /\ pc = "fetch"
    /\ may_retry(attempts, config.retry_attempts)
    /\ \E e \in RpcErrors :
          hist' = [hist EXCEPT !.call_log =
                       @ \o <<<<"get_block", Err(e)>>, <<"sleep", wait_time>>>>]
    /\ attempts' = attempts + 1
    /\ pc' = "sleep"
    /\ UNCHANGED <<result, config, epoch_info, slot, wait_time, block,
                   parse_result, tx_index, account_index, lock, transactions,
                   accounts, tx_arg, tx_result, handlers, waiters>>

\* line 133: the sleep is over
SleepEnds ==
    /\ pc = "sleep"
    /\ wait_time' = backoff(wait_time)
    /\ pc' = "fetch"
    /\ UNCHANGED <<result, config, epoch_info, slot, attempts, block,
                   parse_result, tx_index, account_index, lock, transactions,
                   accounts, tx_arg, tx_result, handlers, waiters, hist>>

\* line 135: the budget is spent, the error of this attempt is returned
GetBlockFail ==
    /\ pc = "fetch"
    /\ ~may_retry(attempts, config.retry_attempts)
    /\ \E e \in RpcErrors :
          hist' = [hist EXCEPT !.call_log = Append(@, <<"get_block", Err(e)>>),
                               !.call_return = Some(Err(e))]
    /\ pc' = "fetch_failed"
    /\ UNCHANGED <<result, config, epoch_info, slot, attempts, wait_time, block,
                   parse_result, tx_index, account_index, lock, transactions,
                   accounts, tx_arg, tx_result, handlers, waiters>>

\* a fetch failure that ends the sweep, as a `?` on line 59 would
on_fetch_error_abort(h) == ReturnErr("Failed to get block", h)

\* lines 95-97: get_block_with_retry returned Err
on_fetch_error(h) == NextSlot(h)

FetchFailed ==
    /\ pc = "fetch_failed"
    /\ on_fetch_error([hist EXCEPT !.call_log = <<>>,
                                   !.call_return = None,
                                   !.failed = @ \cup {slot}])
    /\ UNCHANGED <<config, epoch_info, lock, transactions, accounts, tx_arg,
                   tx_result, handlers, waiters>>

\* a parse failure that ends the sweep, as a `?` on line 61 would
on_parse_error_abort(h) == ReturnErr("Failed to parse block", h)

\* lines 90-92: parse_block returned Err
on_parse_error(h) == NextSlot(h)

\* line 61
ParseBlock ==
    /\ pc = "parse"
    /\ LET parsed == parse_block(Unwrap(block))
           h == [hist EXCEPT !.call_log = <<>>,
                             !.call_return = None]
       IN  IF parsed.ok
           THEN /\ parse_result' = Some(parsed)
                /\ pc' = "lock"
                /\ hist' = h
                /\ UNCHANGED <<result, slot, attempts, wait_time, block, tx_index,
                               account_index>>
           ELSE on_parse_error([h EXCEPT !.unparsed = @ \cup {slot},
                                         !.parse_error = Some(parsed.e)])
    /\ waiters' = IF parse_block(Unwrap(block)).ok
                  THEN Append(waiters, SweepTask)
                  ELSE waiters
    /\ UNCHANGED <<config, epoch_info, lock, transactions, accounts, tx_arg,
                   tx_result, handlers>>

\* a lock that is taken whenever it is free, whoever asked first
LockConnection_barging ==
    /\ pc = "lock"
    /\ lock = "free"
    /\ waiters' = SelectSeq(waiters, LAMBDA w : w # SweepTask)
    /\ lock' = "sweep"
    /\ pc' = "insert_transaction"
    /\ tx_index' = 1
    /\ hist' = [hist EXCEPT !.processed = @ \cup {slot},
                            !.overtaken = [i \in Handlers |->
                                IF handlers[i].pc = "waiting" THEN @[i] + 1 ELSE @[i]]]
    /\ UNCHANGED <<result, config, epoch_info, slot, attempts, wait_time, block,
                   parse_result, account_index, transactions, accounts, tx_arg,
                   tx_result, handlers>>

\* line 65: the guard is granted to the sweep, the first in line
LockConnection ==
    /\ pc = "lock"
    /\ lock = "free"
    /\ waiters # <<>>
    /\ Head(waiters) = SweepTask
    /\ waiters' = Tail(waiters)
    /\ lock' = "sweep"
    /\ pc' = "insert_transaction"
    /\ tx_index' = 1
    /\ hist' = [hist EXCEPT !.processed = @ \cup {slot},
                            !.overtaken = [i \in Handlers |->
                                IF handlers[i].pc = "waiting" THEN @[i] + 1 ELSE @[i]]]
    /\ UNCHANGED <<result, config, epoch_info, slot, attempts, wait_time, block,
                   parse_result, account_index, transactions, accounts, tx_arg,
                   tx_result, handlers>>

\* a record with timestamp and block_height taken from each other's source
transaction_record_swapped(transaction, b, s) ==
    [transaction_id |-> transaction[1],
     timestamp |-> s,
     block_height |-> IF IsSome(b.block_time) THEN Unwrap(b.block_time) ELSE 0,
     raw_transaction |-> to_string(transaction[2])]

\* lines 67-72
transaction_record(transaction, b, s) ==
    [transaction_id |-> transaction[1],
     timestamp |-> IF IsSome(b.block_time) THEN Unwrap(b.block_time) ELSE 0,
     block_height |-> s,
     raw_transaction |-> to_string(transaction[2])]

\* account records built receiver first
account_record_receiver_first(transaction, k) ==
    LET transfer_info == Unwrap(transaction[3])
        account_id == <<transfer_info.receiver, transfer_info.sender>>[k]
    IN  [account_id |-> account_id,
         estimated_balance |-> 0,
         related_transactions |-> <<transaction[1]>>]

\* lines 78-84
account_record(transaction, k) ==
    LET transfer_info == Unwrap(transaction[3])
        account_id == <<transfer_info.sender, transfer_info.receiver>>[k]
    IN  [account_id |-> account_id,
         estimated_balance |-> 0,
         related_transactions |-> <<transaction[1]>>]

Snapshot ==
    [transactions |-> transactions, accounts |-> accounts, fetched |-> hist.fetched]

\* a failed write that is logged, the loop going on with the next transaction
on_write_error_continue(msg, h) ==
    /\ pc' = "insert_transaction"
    /\ tx_index' = tx_index + 1
    /\ account_index' = 1
    /\ hist' = h
    /\ UNCHANGED <<result, slot, attempts, wait_time, block, parse_result, lock>>

\* the record of an upsert noted as the last one for its id
Noted(upserted, table, id, record) ==
    {u \in upserted : ~(u.table = table /\ u.id = id)}
        \cup {[table |-> table, id |-> id, record |-> record]}

\* the transfer of an entry recorded for its sender and its receiver
Touched(last, transaction) ==
    LET transfer_info == Unwrap(transaction[3])
        both == {transfer_info.sender, transfer_info.receiver}
    IN  {p \in last : p[1] \notin both} \cup {<<a, transaction[1]>> : a \in both}

\* lines 73 and 85: the `?` on a failed write
on_write_error(msg, h) ==
    /\ ReturnErr(msg, h)
    /\ lock' = "free"

\* line 73
InsertTransaction ==
    /\ pc = "insert_transaction"
    /\ tx_index <= Len(parsed_response)
    /\ LET transaction == parsed_response[tx_index]
           record == transaction_record(transaction, Unwrap(block), slot)
           h == [hist EXCEPT !.written = @ \cup {slot},
                             !.unguarded = IF lock = "sweep" THEN @
                                           ELSE @ \cup {"sweep"}]
           logged(ok) == [h EXCEPT !.write_log =
                             Append(@, [table |-> "transactions", record |-> record,
                                        ok |-> ok])]
       IN  \/ /\ transactions' = insert_or_update_transaction(transactions, record)
              /\ IF IsSome(transaction[3])
                 THEN /\ pc' = "insert_account"
                      /\ account_index' = 1
                      /\ tx_index' = tx_index
                 ELSE /\ pc' = "insert_transaction"
                      /\ account_index' = account_index
                      /\ tx_index' = tx_index + 1
              /\ hist' = [logged(TRUE) EXCEPT !.upserted =
                             Noted(@, "transactions", record.transaction_id, record)]
              /\ UNCHANGED <<result, slot, attempts, wait_time, block,
                             parse_result, lock>>
           \/ /\ on_write_error("transactions: write failed",
                                [logged(FALSE) EXCEPT !.write_failure = Some(Snapshot)])
              /\ UNCHANGED transactions
    /\ UNCHANGED <<config, epoch_info, accounts, tx_arg, tx_result, handlers, waiters>>

\* line 85
InsertAccount ==
    /\ pc = "insert_account"
    /\ LET transaction == parsed_response[tx_index]
           record == account_record(transaction, account_index)
           h == [hist EXCEPT !.unguarded = IF lock = "sweep" THEN @
                                           ELSE @ \cup {"sweep"}]
           logged(ok) == [h EXCEPT !.write_log =
                             Append(@, [table |-> "accounts", record |-> record,
                                        ok |-> ok]),
                                   !.upserted =
                             IF ok THEN Noted(@, "accounts", record.account_id, record)
                                   ELSE @]
       IN  \/ /\ accounts' = insert_or_update_account(accounts, record)
              /\ IF account_index < 2
                 THEN /\ account_index' = account_index + 1
                      /\ pc' = "insert_account"
                      /\ tx_index' = tx_index
                 ELSE /\ account_index' = 1
                      /\ pc' = "insert_transaction"
                      /\ tx_index' = tx_index + 1
              /\ hist' = IF account_index < 2
                          THEN logged(TRUE)
                          ELSE [logged(TRUE) EXCEPT !.last_transfer =
                                   Touched(@, transaction)]
              /\ UNCHANGED <<result, slot, attempts, wait_time, block,
                             parse_result, lock>>
           \/ /\ on_write_error("accounts: write failed",
                                [logged(FALSE) EXCEPT !.write_failure = Some(Snapshot)])
              /\ UNCHANGED accounts
    /\ UNCHANGED <<config, epoch_info, transactions, tx_arg, tx_result, handlers, waiters>>

\* a guard that outlives the slot it was taken for
UnlockConnection_holding ==
    /\ pc = "insert_transaction"
    /\ tx_index > Len(parsed_response)
    /\ lock' = lock
    /\ NextSlot([hist EXCEPT !.write_log = <<>>])
    /\ UNCHANGED <<config, epoch_info, transactions, accounts, tx_arg, tx_result,
                   handlers, waiters>>

\* line 89: the writes of the slot are over, the guard is dropped
UnlockConnection ==
    /\ pc = "insert_transaction"
    /\ tx_index > Len(parsed_response)
    /\ lock' = "free"
    /\ NextSlot([hist EXCEPT !.write_log = <<>>])
    /\ UNCHANGED <<config, epoch_info, transactions, accounts, tx_arg, tx_result, handlers, waiters>>

Next ==
    \/ GetEpochInfoOk
    \/ GetEpochInfoErr
    \/ GetBlockOk
    \/ GetBlockRetry
    \/ SleepEnds
    \/ GetBlockFail
    \/ FetchFailed
    \/ ParseBlock
    \/ LockConnection
    \/ InsertTransaction
    \/ InsertAccount
    \/ UnlockConnection

Spec == Init /\ [][Next]_vars

\* The sweep is one task: every RPC call returns, every sleep ends, the lock
\* it asks for is granted and every statement returns, so a step it can take
\* is taken.
SpecFair == Spec /\ WF_vars(Next)

(***************************************************************************)
(* The server beside the sweep (main.rs 42-57): the sweep of a two-slot    *)
(* window, from its first fetch on, and the handlers.                      *)
(***************************************************************************)
sweep_vars == <<pc, result, config, epoch_info, slot, attempts, wait_time, block,
                parse_result, tx_index, account_index, tx_arg, tx_result>>

\* a request arrives: the handler task starts and asks for the lock
\* (lines 50 and 95)
ReceiveRequest(i) ==
    /\ handlers[i].pc = "idle"
    /\ \E q \in Queries :
          handlers' = [handlers EXCEPT ![i] =
                          [pc |-> "waiting", query |-> Some(q), response |-> None]]
    /\ waiters' = Append(waiters, i)
    /\ UNCHANGED <<sweep_vars, lock, transactions, accounts, hist>>

\* a handler that goes on without the lock being free
HandlerLock_unguarded(i) ==
    /\ handlers[i].pc = "waiting"
    /\ waiters' = SelectSeq(waiters, LAMBDA w : w # i)
    /\ lock' = "handler"
    /\ handlers' = [handlers EXCEPT ![i].pc = "holding"]
    /\ hist' = [hist EXCEPT !.overtaken[i] = 0]
    /\ UNCHANGED <<sweep_vars, transactions, accounts>>

\* conn.lock().await returns the guard: tokio grants it in the order asked
HandlerLock(i) ==
    /\ handlers[i].pc = "waiting"
    /\ lock = "free"
    /\ waiters # <<>>
    /\ Head(waiters) = i
    /\ waiters' = Tail(waiters)
    /\ lock' = "handler"
    /\ handlers' = [handlers EXCEPT ![i].pc = "holding"]
    /\ hist' = [hist EXCEPT !.overtaken[i] = 0]
    /\ UNCHANGED <<sweep_vars, transactions, accounts>>

\* lines 51-58 and 96-105: the lookup and the response built from it; the
\* query may fail in SQLite
HandlerLookup(i) ==
    /\ handlers[i].pc = "holding"
    /\ LET q == Unwrap(handlers[i].query)
           found == IF q.kind = "transaction"
                    THEN get_transaction(transactions, q.id)
                    ELSE get_account(accounts, q.id)
       IN  \E failed \in BOOLEAN :
              LET outcome == IF failed THEN Err("query failed") ELSE found
                  response == IF q.kind = "transaction"
                              THEN transaction_response(outcome)
                              ELSE account_response(outcome)
              IN  handlers' = [handlers EXCEPT ![i].pc = "looked_up",
                                               ![i].response = Some(response)]
    /\ hist' = [hist EXCEPT !.lookups[i] = @ + 1,
                            !.unguarded = IF lock = "handler" THEN @
                                          ELSE @ \cup {"handler"}]
    /\ UNCHANGED <<sweep_vars, lock, transactions, accounts, waiters>>

\* the handler returns its response; the guard is dropped
HandlerReturn(i) ==
    /\ handlers[i].pc = "looked_up"
    /\ lock' = "free"
    /\ handlers' = [handlers EXCEPT ![i] = IdleHandler]
    /\ hist' = [hist EXCEPT !.lookups[i] = 0]
    /\ UNCHANGED <<sweep_vars, transactions, accounts, waiters>>

ServeEpochInfo == [absolute_slot |-> 1, slot_index |-> 0, slots_in_epoch |-> 1]

InitServe ==
    /\ pc = "fetch"
    /\ result = None
    /\ config = [retry_attempts |-> 1]
    /\ epoch_info = Some(ServeEpochInfo)
    /\ slot = start_slot_of(ServeEpochInfo)
    /\ attempts = 0
    /\ wait_time = InitialWaitTime
    /\ block = None
    /\ parse_result = None
    /\ tx_index = 1
    /\ account_index = 1
    /\ lock = "free"
    /\ \E old \in BOOLEAN :
          /\ transactions = IF old THEN {OldTransactionRow} ELSE {}
          /\ accounts = IF old THEN {OldAccountRow} ELSE {}
    /\ tx_arg = None
    /\ tx_result = None
    /\ handlers = [i \in Handlers |-> IdleHandler]
    /\ waiters = <<>>
    /\ hist = [HistInit(transactions, accounts) EXCEPT
                  !.epoch_calls = 1,
                  !.fetched = <<slot>>]

NextServe ==
    \/ GetBlockOk
    \/ GetBlockRetry
    \/ SleepEnds
    \/ GetBlockFail
    \/ FetchFailed
    \/ ParseBlock
    \/ LockConnection
    \/ InsertTransaction
    \/ InsertAccount
    \/ UnlockConnection
    \/ \E i \in Handlers :
          \/ ReceiveRequest(i)
          \/ HandlerLock(i)
          \/ HandlerLookup(i)
          \/ HandlerReturn(i)

SpecServe == InitServe /\ [][NextServe]_vars

\* The scheduling the runtime gives: a task that can run is run (main.rs 42,
\* 57: the sweep and every handler are tasks of the multi-thread runtime), the
\* lock is granted to the first in line once it is free, and a statement on
\* the connection returns.  Nothing is assumed of the RPC node or of the
\* timer: a fetch or a sleep may last for ever.
FairServe ==
    /\ \A i \in Handlers :
          /\ WF_vars(HandlerLock(i))
          /\ WF_vars(HandlerLookup(i))
          /\ WF_vars(HandlerReturn(i))
    /\ WF_vars(LockConnection)
    /\ WF_vars(InsertTransaction)
    /\ WF_vars(InsertAccount)
    /\ WF_vars(UnlockConnection)

SpecServeFair == SpecServe /\ FairServe

(***************************************************************************)
(* The program started twice on the same solana.db (main.rs 30-46:         *)
(* Connection::open keeps the file, initialize_db creates the tables only   *)
(* when they are missing): two sweeps of the same window against a node     *)
(* that answers both alike, hist.chain saying what it has for each slot.    *)
(* A store write may fail in either sweep.                                  *)
(***************************************************************************)
RerunEpochInfo ==
    [absolute_slot |-> 1, slot_index |-> 0, slots_in_epoch |-> MaxSlotsInEpoch - 1]

RerunWindow == start_slot_of(RerunEpochInfo)..end_slot_of(RerunEpochInfo)

InitRerun ==
    /\ pc = "fetch"
    /\ result = None
    /\ config = [retry_attempts |-> 0]
    /\ epoch_info = Some(RerunEpochInfo)
    /\ slot = start_slot_of(RerunEpochInfo)
    /\ attempts = 0
    /\ wait_time = InitialWaitTime
    /\ block = None
    /\ parse_result = None
    /\ tx_index = 1
    /\ account_index = 1
    /\ lock = "free"
    /\ \E old \in BOOLEAN :
          /\ transactions = IF old THEN {OldTransactionRow} ELSE {}
          /\ accounts = IF old THEN {OldAccountRow} ELSE {}
    /\ tx_arg = None
    /\ tx_result = None
    /\ handlers = [i \in Handlers |-> IdleHandler]
    /\ waiters = <<>>
    /\ \E chain \in [RerunWindow -> {None} \cup {Some(b) : b \in SweepBlocks}] :
          hist = [HistInit(transactions, accounts) EXCEPT
                     !.epoch_calls = 1,
                     !.fetched = <<slot>>,
                     !.chain = chain]

\* get_block answers with the block the node has for the slot
RerunGetBlockOk ==
    /\ IsSome(hist.chain[slot])
    /\ GetBlockOk
    /\ block' = hist.chain[slot]

\* the node has no block for the slot
RerunGetBlockFail ==
    /\ ~IsSome(hist.chain[slot])
    /\ GetBlockFail

\* the program is started again: a new sweep, on the store the first one left
Rerun ==
    /\ pc = "done"
    /\ hist.run = 1
    /\ pc' = "fetch"
    /\ result' = None
    /\ slot' = start_slot_of(RerunEpochInfo)
    /\ attempts' = 0
    /\ wait_time' = InitialWaitTime
    /\ block' = None
    /\ parse_result' = None
    /\ tx_index' = 1
    /\ account_index' = 1
    /\ lock' = "free"
    /\ hist' = [HistInit(transactions, accounts) EXCEPT
                   !.epoch_calls = 1,
                   !.fetched = <<start_slot_of(RerunEpochInfo)>>,
                   !.chain = hist.chain,
                   !.run = 2,
                   !.first_run = Some([ok |-> Unwrap(result).ok,
                                       transactions0 |-> hist.transactions0,
                                       accounts0 |-> hist.accounts0,
                                       transactions |-> transactions,
                                       accounts |-> accounts])]
    /\ UNCHANGED <<config, epoch_info, transactions, accounts, tx_arg, tx_result,
                   handlers, waiters>>

NextRerun ==
    \/ RerunGetBlockOk
    \/ RerunGetBlockFail
    \/ FetchFailed
    \/ ParseBlock
    \/ LockConnection
    \/ InsertTransaction
    \/ InsertAccount
    \/ UnlockConnection
    \/ Rerun

SpecRerun == InitRerun /\ [][NextRerun]_vars

(***************************************************************************)
(* get_block_with_retry alone: one call, for every retry budget up to      *)
(* MaxRetries and every pattern of get_block outcomes.                     *)
(***************************************************************************)
InitRetry ==
    /\ pc = "fetch"
    /\ result = None
    /\ config \in [retry_attempts : 0..MaxRetries]
    /\ epoch_info = None
    /\ slot \in 0..MaxAbsoluteSlot
    /\ attempts = 0
    /\ wait_time = InitialWaitTime
    /\ block = None
    /\ parse_result = None
    /\ tx_index = 1
    /\ account_index = 1
    /\ lock = "free"
    /\ transactions = {}
    /\ accounts = {}
    /\ tx_arg = None
    /\ tx_result = None
    /\ handlers = [i \in Handlers |-> IdleHandler]
    /\ waiters = <<>>
    /\ hist = [HistInit({}, {}) EXCEPT !.fetched = <<slot>>]

NextRetry ==
    \/ GetBlockOk
    \/ GetBlockRetry
    \/ SleepEnds
    \/ GetBlockFail

SpecRetry == InitRetry /\ [][NextRetry]_vars

(***************************************************************************)
(* get_block_with_retry in the widths of its integers, for every budget a  *)
(* u8 holds: attempts counts in a u8, wait_time is a u64 kept as its bits. *)
(* The position "panicked" is the task after an arithmetic overflow in a   *)
(* build with overflow checks; a build without them wraps.                 *)
(***************************************************************************)
TheBlock == [block_time |-> None, transactions |-> None]

InitBackoff ==
    /\ pc = "fetch"
    /\ result = None
    /\ config \in [retry_attempts : 0..U8Max]
    /\ epoch_info = None
    /\ slot = 0
    /\ attempts = 0
    /\ wait_time = u64(InitialWaitTime)
    /\ block = None
    /\ parse_result = None
    /\ tx_index = 1
    /\ account_index = 1
    /\ lock = "free"
    /\ transactions = {}
    /\ accounts = {}
    /\ tx_arg = None
    /\ tx_result = None
    /\ handlers = [i \in Handlers |-> IdleHandler]
    /\ waiters = <<>>
    /\ hist = [HistInit({}, {}) EXCEPT !.fetched = <<slot>>]

backoff_frame == <<result, config, epoch_info, slot, parse_result, tx_index,
                   account_index, lock, transactions, accounts, tx_arg,
                   tx_result, handlers, waiters>>

\* line 128: Ok(block) => return Ok(block)
BackoffGetBlockOk ==
    /\ pc = "fetch"
    /\ block' = Some(TheBlock)
    /\ hist' = [hist EXCEPT !.call_return = Some(Ok(TheBlock))]
    /\ pc' = "returned"
    /\ UNCHANGED <<attempts, wait_time, backoff_frame>>

\* lines 129-132: attempts += 1 and the sleep of wait_time seconds begins
BackoffGetBlockRetry ==
    /\ pc = "fetch"
    /\ may_retry(attempts, config.retry_attempts)
    /\ attempts' = (attempts + 1) % (U8Max + 1)
    /\ pc' = "sleep"
    /\ UNCHANGED <<wait_time, block, hist, backoff_frame>>

\* line 133: wait_time *= 2 once the sleep is over
BackoffSleepEnds ==
    /\ pc = "sleep"
    /\ IF mul2_overflows(wait_time)
       THEN /\ hist' = [hist EXCEPT !.overflowed = TRUE]
            /\ \/ pc' = "panicked" /\ UNCHANGED wait_time
               \/ pc' = "fetch" /\ wait_time' = mul2_wrapping(wait_time)
       ELSE /\ wait_time' = mul2_wrapping(wait_time)
            /\ pc' = "fetch"
            /\ UNCHANGED hist
    /\ UNCHANGED <<attempts, block, backoff_frame>>

\* line 135: Err(err) => return Err(err)
BackoffGetBlockFail ==
    /\ pc = "fetch"
    /\ ~may_retry(attempts, config.retry_attempts)
    /\ hist' = [hist EXCEPT !.call_return = Some(Err("timeout"))]
    /\ pc' = "returned"
    /\ UNCHANGED <<attempts, wait_time, block, backoff_frame>>

NextBackoff ==
    \/ BackoffGetBlockOk
    \/ BackoffGetBlockRetry
    \/ BackoffSleepEnds
    \/ BackoffGetBlockFail

SpecBackoff == InitBackoff /\ [][NextBackoff]_vars

(***************************************************************************)
(* parse_transaction alone: one call on every transaction of at most       *)
(* MaxInstructions instructions.                                           *)
(***************************************************************************)
Instructions ==
    {CompiledInstruction,
     PartiallyDecodedInstruction(SYSTEM_PROGRAM_ID),
     ParsedInstructionOf(COMPUTE_BUDGET_ID, TransferPayload("acc3", "acc1", 1)),
     ParsedInstructionOf(SYSTEM_PROGRAM_ID, TransferPayload("acc1", "acc2", 967)),
     ParsedInstructionOf(SYSTEM_PROGRAM_ID, TransferPayload("acc2", "acc1", 5)),
     ParsedInstructionOf(SYSTEM_PROGRAM_ID, CreateAccountPayload("acc1", "acc3", 5))}

EncodedTransactions ==
    {JsonTransaction(<<"sig1">>, "Parsed", instrs) :
        instrs \in SeqsUpTo(Instructions, MaxInstructions)}
    \cup {JsonTransaction(<<"sig1">>, "Raw", <<>>), BinaryTransaction}

InitTx ==
    /\ pc = "parse_transaction"
    /\ result = None
    /\ config = [retry_attempts |-> 0]
    /\ epoch_info = None
    /\ slot = 0
    /\ attempts = 0
    /\ wait_time = InitialWaitTime
    /\ block = None
    /\ parse_result = None
    /\ tx_index = 1
    /\ account_index = 1
    /\ lock = "free"
    /\ transactions = {}
    /\ accounts = {}
    /\ tx_arg \in {Some([transaction |-> t, timestamp |-> ts]) :
                      t \in EncodedTransactions, ts \in BlockTimes}
    /\ tx_result = None
    /\ handlers = [i \in Handlers |-> IdleHandler]
    /\ waiters = <<>>
    /\ hist = HistInit({}, {})

ParseTransaction ==
    /\ pc = "parse_transaction"
    /\ tx_result' = Some(parse_transaction(Unwrap(tx_arg).transaction,
                                           Unwrap(tx_arg).timestamp))
    /\ pc' = "returned"
    /\ UNCHANGED <<result, config, epoch_info, slot, attempts, wait_time, block,
                   parse_result, tx_index, account_index, lock, transactions,
                   accounts, tx_arg, handlers, waiters, hist>>

NextTx == ParseTransaction

SpecTx == InitTx /\ [][NextTx]_vars

(***************************************************************************)
(* parse_block alone: one call on every block of at most                   *)
(* MaxBlockTransactions transactions.                                      *)
(***************************************************************************)
TxSoleTransfer ==
    JsonTransaction(<<"sig1", "sig3">>, "Parsed",
        <<ParsedInstructionOf(SYSTEM_PROGRAM_ID, TransferPayload("acc1", "acc2", 967))>>)
TxTransferLast ==
    JsonTransaction(<<"sig2">>, "Parsed",
        <<CompiledInstruction,
          ParsedInstructionOf(COMPUTE_BUDGET_ID, TransferPayload("acc3", "acc1", 1)),
          PartiallyDecodedInstruction(SYSTEM_PROGRAM_ID),
          ParsedInstructionOf(SYSTEM_PROGRAM_ID, TransferPayload("acc2", "acc1", 5))>>)
TxTwoTransfers ==
    JsonTransaction(<<"sig3">>, "Parsed",
        <<ParsedInstructionOf(SYSTEM_PROGRAM_ID, TransferPayload("acc2", "acc3", 5)),
          ParsedInstructionOf(SYSTEM_PROGRAM_ID, TransferPayload("acc3", "acc2", 7))>>)
TxCreateAccount ==
    JsonTransaction(<<"sig1">>, "Parsed",
        <<ParsedInstructionOf(SYSTEM_PROGRAM_ID, CreateAccountPayload("acc1", "acc3", 5))>>)
TxRawMessage ==
    JsonTransaction(<<"sig2">>, "Raw", <<>>)

BlockTransactions ==
    {TxSoleTransfer, TxTransferLast, TxTwoTransfers, TxNoTransfer, TxCreateAccount,
     TxRawMessage, BinaryTransaction}

Blocks ==
    [block_time : BlockTimes \cup {Some(7)},
     transactions : {None} \cup
         {Some(txs) : txs \in SeqsUpTo(BlockTransactions, MaxBlockTransactions)}]

InitParse ==
    /\ pc = "parse_block"
    /\ result = None
    /\ config = [retry_attempts |-> 0]
    /\ epoch_info = None
    /\ slot = 0
    /\ attempts = 0
    /\ wait_time = InitialWaitTime
    /\ block \in {Some(b) : b \in Blocks}
    /\ parse_result = None
    /\ tx_index = 1
    /\ account_index = 1
    /\ lock = "free"
    /\ transactions = {}
    /\ accounts = {}
    /\ tx_arg = None
    /\ tx_result = None
    /\ handlers = [i \in Handlers |-> IdleHandler]
    /\ waiters = <<>>
    /\ hist = HistInit({}, {})

CallParseBlock ==
    /\ pc = "parse_block"
    /\ parse_result' = Some(parse_block(Unwrap(block)))
    /\ pc' = "returned"
    /\ UNCHANGED <<result, config, epoch_info, slot, attempts, wait_time, block,
                   tx_index, account_index, lock, transactions, accounts, tx_arg,
                   tx_result, handlers, waiters, hist>>

NextParse == CallParseBlock

SpecParse == InitParse /\ [][NextParse]_vars

(***************************************************************************)
(* The loop body for one slot, lines 60-93, entered with every block of at *)
(* most MaxBlockTransactions transactions get_block_with_retry may have    *)
(* returned for the first slot of a two-slot window.                       *)
(***************************************************************************)
SlotEpochInfo == [absolute_slot |-> 1, slot_index |-> 0, slots_in_epoch |-> 1]

InitSlot ==
    /\ pc = "parse"
    /\ result = None
    /\ config = [retry_attempts |-> 0]
    /\ epoch_info = Some(SlotEpochInfo)
    /\ slot = start_slot_of(SlotEpochInfo)
    /\ attempts = 0
    /\ wait_time = InitialWaitTime
    /\ block \in {Some(b) : b \in Blocks}
    /\ parse_result = None
    /\ tx_index = 1
    /\ account_index = 1
    /\ lock = "free"
    /\ \E old \in BOOLEAN :
          /\ transactions = IF old THEN {OldTransactionRow} ELSE {}
          /\ accounts = IF old THEN {OldAccountRow} ELSE {}
    /\ tx_arg = None
    /\ tx_result = None
    /\ handlers = [i \in Handlers |-> IdleHandler]
    /\ waiters = <<>>
    /\ hist = [HistInit(transactions, accounts) EXCEPT
                  !.epoch_calls = 1,
                  !.fetched = <<slot>>,
                  !.call_log = <<<<"get_block", Ok(Unwrap(block))>>>>,
                  !.call_return = Some(Ok(Unwrap(block))),
                  !.given = block]

NextSlotBody ==
    \/ ParseBlock
    \/ LockConnection
    \/ InsertTransaction
    \/ InsertAccount
    \/ UnlockConnection

SpecSlot == InitSlot /\ [][NextSlotBody]_vars

(***************************************************************************)
(* Properties.                                                             *)
(***************************************************************************)
Range(f) == {f[i] : i \in DOMAIN f}
Min(S) == CHOOSE x \in S : \A y \in S : x <= y

ReturnedOk == IsSome(result) /\ Unwrap(result).ok
ReturnedErr == IsSome(result) /\ ~Unwrap(result).ok

\* the window of the spec: [absolute_slot - slot_index, that + slots_in_epoch]
WindowFirst == Unwrap(epoch_info).absolute_slot - Unwrap(epoch_info).slot_index
WindowLast == WindowFirst + Unwrap(epoch_info).slots_in_epoch
Window == WindowFirst..WindowLast

\* rows of the transactions table that were not there when the sweep began
NewTransactionRows == transactions \ hist.transactions0

C2_WriteFailureEndsSweep ==
    IsSome(hist.write_failure) =>
        /\ pc = "done"
        /\ ReturnedErr
        /\ Unwrap(result).e \in {"transactions: write failed", "accounts: write failed"}
        /\ transactions = Unwrap(hist.write_failure).transactions
        /\ accounts = Unwrap(hist.write_failure).accounts
        /\ hist.fetched = Unwrap(hist.write_failure).fetched
        /\ hist.fetched[Len(hist.fetched)] = slot

C2_Witness ==
    /\ IsSome(hist.write_failure)
    /\ pc = "done"
    /\ tx_index < Len(parsed_response)
    /\ slot < end_slot
    /\ hist.written = {slot}

C7_EpochInfoFailure ==
    /\ hist.epoch_calls <= 1
    /\ (pc = "done" /\ epoch_info = None) =>
          /\ ReturnedErr
          /\ hist.epoch_calls = 1
          /\ hist.fetched = <<>>
          /\ hist.call_log = <<>>
          /\ hist.processed = {}
          /\ hist.written = {}
          /\ lock = "free"
          /\ transactions = hist.transactions0
          /\ accounts = hist.accounts0

C7_Witness ==
    /\ pc = "done"
    /\ epoch_info = None
    /\ ReturnedErr
    /\ transactions # {}

AttemptsMade == (Len(hist.call_log) + 1) \div 2

C5_ReturnsLastAttempt ==
    LET log == hist.call_log
        r == config.retry_attempts
    IN  IF IsSome(hist.call_return)
        THEN LET ret == Unwrap(hist.call_return) IN
             /\ Len(log) % 2 = 1
             /\ log[Len(log)][1] = "get_block"
             /\ log[Len(log)][2] = ret
             /\ \A k \in 1..(AttemptsMade - 1) : ~log[2 * k - 1][2].ok
             /\ AttemptsMade <= r + 1
             /\ ~ret.ok => AttemptsMade = r + 1 /\ pc = "fetch_failed"
             /\ ret.ok => block = Some(ret.v) /\ pc = "parse"
        ELSE pc \in {"fetch", "sleep"} =>
                /\ \A j \in 1..Len(log) : log[j][1] = "get_block" => ~log[j][2].ok
                /\ attempts <= r
                /\ Cardinality({j \in 1..Len(log) : log[j][1] = "get_block"}) = attempts

C5_Witness ==
    /\ IsSome(hist.call_return)
    /\ Unwrap(hist.call_return).ok
    /\ config.retry_attempts >= 2
    /\ AttemptsMade = config.retry_attempts + 1
    /\ hist.call_log[1][2].e # hist.call_log[3][2].e

(***************************************************************************)
(* parse_block (under SpecParse) and parse_transaction (under SpecTx).     *)
(***************************************************************************)
IsSystemParsed(instruction) ==
    instruction.form = "Parsed" /\ instruction.program_id = SYSTEM_PROGRAM_ID

\* the payload has the three fields of a transfer
HasTransferFields(instruction) ==
    {"source", "destination", "lamports"} \subseteq DOMAIN instruction.parsed.info

SystemParsedAt(t) ==
    {i \in 1..Len(t.message.instructions) : IsSystemParsed(t.message.instructions[i])}

\* a JSON transaction with a parsed message whose only system-program parsed
\* instruction is a well-formed transfer
IsSoleTransfer(t) ==
    /\ t.encoding = "Json"
    /\ t.message.format = "Parsed"
    /\ Cardinality(SystemParsedAt(t)) = 1
    /\ \A i \in SystemParsedAt(t) :
          /\ t.message.instructions[i].parsed.type = "transfer"
          /\ HasTransferFields(t.message.instructions[i])

DetailsOf(instruction, timestamp) ==
    [sender |-> instruction.parsed.info.source,
     receiver |-> instruction.parsed.info.destination,
     amount |-> instruction.parsed.info.lamports,
     timestamp |-> timestamp]

BlockTxs == IF IsSome(Unwrap(block).transactions)
            THEN Unwrap(Unwrap(block).transactions)
            ELSE <<>>

\* C9: parse_block returns Ok on a block of JSON-encoded transactions, and in
\* every Ok output a sole-transfer transaction has one entry per occurrence in
\* the block, each <<first signature, the transaction, Some(details)>> with
\* sender, receiver and amount of the transfer and the block's time; whatever
\* instructions stand before the transfer.
C9_SoleTransferEntry ==
    (pc = "returned" /\ IsSome(parse_result)) =>
        LET out == Unwrap(parse_result) IN
        /\ (\A i \in 1..Len(BlockTxs) : BlockTxs[i].encoding = "Json") => out.ok
        /\ out.ok =>
              \A i \in 1..Len(BlockTxs) :
                 IsSoleTransfer(BlockTxs[i]) =>
                    LET t == BlockTxs[i]
                        at == Min(SystemParsedAt(t))
                        entry == <<t.signatures[1], t,
                                   Some(DetailsOf(t.message.instructions[at],
                                                  Unwrap(block).block_time))>>
                    IN  /\ Cardinality({j \in 1..Len(out.v) : out.v[j][2] = t})
                             = Cardinality({k \in 1..Len(BlockTxs) : BlockTxs[k] = t})
                        /\ \A j \in 1..Len(out.v) : out.v[j][2] = t => out.v[j] = entry
                        /\ Len(BlockTxs) = 1 => out.v = <<entry>>

C9_Witness ==
    /\ pc = "returned"
    /\ IsSome(parse_result)
    /\ Unwrap(parse_result).ok
    /\ IsSome(Unwrap(block).block_time)
    /\ Len(BlockTxs) = 2
    /\ BlockTxs[1] # BlockTxs[2]
    /\ IsSoleTransfer(BlockTxs[1])
    /\ Len(BlockTxs[1].signatures) = 2
    /\ IsSoleTransfer(BlockTxs[2])
    /\ Min(SystemParsedAt(BlockTxs[2])) > 1
    /\ Len(Unwrap(parse_result).v) = 2

TxIn == Unwrap(tx_arg).transaction
TimestampIn == Unwrap(tx_arg).timestamp

\* positions of the parsed system-program instructions whose payload
\* deserializes into {source, destination, lamports}
DeserializableAt(t) ==
    {i \in SystemParsedAt(t) : HasTransferFields(t.message.instructions[i])}

\* C10 as stated: Some(details of the first deserializable system-program
\* instruction) whenever the transaction has one.
C10_AsStated ==
    (/\ pc = "returned"
     /\ TxIn.encoding = "Json"
     /\ TxIn.message.format = "Parsed"
     /\ DeserializableAt(TxIn) # {}) =>
        Unwrap(tx_result) =
            Ok(Some(DetailsOf(TxIn.message.instructions[Min(DeserializableAt(TxIn))],
                              TimestampIn)))

\* C10 amended: the first parsed system-program instruction decides.  When
\* its payload deserializes the call returns Some(its details), whatever
\* follows it; when it does not, the call returns an error, even if a later
\* system-program instruction would deserialize.
C10_FirstSystemInstructionDecides ==
    (/\ pc = "returned"
     /\ TxIn.encoding = "Json"
     /\ TxIn.message.format = "Parsed"
     /\ SystemParsedAt(TxIn) # {}) =>
        LET first == Min(SystemParsedAt(TxIn)) IN
        IF first \in DeserializableAt(TxIn)
        THEN Unwrap(tx_result) =
                Ok(Some(DetailsOf(TxIn.message.instructions[first], TimestampIn)))
        ELSE ~Unwrap(tx_result).ok

C10_Witness ==
    /\ pc = "returned"
    /\ TxIn.encoding = "Json"
    /\ TxIn.message.format = "Parsed"
    /\ Cardinality(DeserializableAt(TxIn)) >= 2
    /\ Min(SystemParsedAt(TxIn)) > 1
    /\ Min(SystemParsedAt(TxIn)) \in DeserializableAt(TxIn)
    /\ \E j \in DeserializableAt(TxIn) :
          TxIn.message.instructions[j] # TxIn.message.instructions[Min(SystemParsedAt(TxIn))]
    /\ Unwrap(tx_result).ok
    /\ IsSome(Unwrap(tx_result).v)

(***************************************************************************)
(* parse_block, the transactions it passes over (under SpecParse).         *)
(***************************************************************************)
IsJsonParsed(t) == t.encoding = "Json" /\ t.message.format = "Parsed"

\* a JSON transaction with a parsed message and no parsed system-program
\* instruction
HasNoSystemInstruction(t) == IsJsonParsed(t) /\ SystemParsedAt(t) = {}

\* a JSON transaction with a parsed message whose first parsed system-program
\* instruction has a payload that does not deserialize
HasMalformedPayload(t) ==
    /\ IsJsonParsed(t)
    /\ SystemParsedAt(t) # {}
    /\ Min(SystemParsedAt(t)) \notin DeserializableAt(t)

\* a JSON transaction whose message is not in parsed form
HasRawMessage(t) == t.encoding = "Json" /\ t.message.format # "Parsed"

\* the positions in txs of the transactions that are neither malformed nor raw
EntryPositionsOf(txs) ==
    {k \in 1..Len(txs) : ~HasMalformedPayload(txs[k]) /\ ~HasRawMessage(txs[k])}

\* where the entry of the i-th transaction of txs stands among the entries
EntryPositionOf(txs, i) == Cardinality({k \in EntryPositionsOf(txs) : k <= i})

EntryPosition(i) == EntryPositionOf(BlockTxs, i)

AllJson == \A i \in 1..Len(BlockTxs) : BlockTxs[i].encoding = "Json"

\* C11: on a block of JSON-encoded transactions parse_block returns Ok, and in
\* every Ok output a transaction with a parsed message and no parsed
\* system-program instruction has the entry <<first signature, the
\* transaction, None>>, standing after the entries of the transactions before
\* it and before those of the transactions after it.
C11_NoTransferEntry ==
    (pc = "returned" /\ IsSome(parse_result)) =>
        LET out == Unwrap(parse_result) IN
        /\ (AllJson /\ \E i \in 1..Len(BlockTxs) : HasNoSystemInstruction(BlockTxs[i]))
              => out.ok
        /\ out.ok =>
              \A i \in 1..Len(BlockTxs) :
                 HasNoSystemInstruction(BlockTxs[i]) =>
                    /\ EntryPosition(i) \in 1..Len(out.v)
                    /\ out.v[EntryPosition(i)] =
                          <<BlockTxs[i].signatures[1], BlockTxs[i], None>>

C11_Witness ==
    /\ pc = "returned"
    /\ IsSome(parse_result)
    /\ Unwrap(parse_result).ok
    /\ Len(BlockTxs) = 2
    /\ IsSoleTransfer(BlockTxs[1])
    /\ HasNoSystemInstruction(BlockTxs[2])
    /\ Unwrap(parse_result).v[2] = <<BlockTxs[2].signatures[1], BlockTxs[2], None>>

(***************************************************************************)
(* One slot's block from parse to the last write (under SpecSlot).         *)
(***************************************************************************)
GivenBlock == Unwrap(hist.given)
GivenTxs == IF IsSome(GivenBlock.transactions)
            THEN Unwrap(GivenBlock.transactions)
            ELSE <<>>

\* parse_block has returned for the given block
Parsed == pc # "parse"

\* C12: get_transaction_signature fails with "Unsupported transaction
\* encoding" on a transaction that is not JSON-encoded; once parse_block has
\* returned for a block with such a transaction at any position, the block was
\* rejected with that error, no entry of it was handed on, the lock was not
\* taken, no write was issued and the tables are as they were.
C12_NonJsonRejectsBlock ==
    LET at == {i \in 1..Len(GivenTxs) : GivenTxs[i].encoding # "Json"} IN
    /\ \A i \in at :
          LET tx_signature == get_transaction_signature(GivenTxs[i]) IN
          ~tx_signature.ok /\ tx_signature.e = "Unsupported transaction encoding"
    /\ (Parsed /\ at # {}) =>
          /\ hist.unparsed = {WindowFirst}
          /\ hist.parse_error = Some("Unsupported transaction encoding")
          /\ parse_result = None
          /\ hist.processed = {}
          /\ hist.written = {}
          /\ hist.write_log = <<>>
          /\ lock = "free"
          /\ transactions = hist.transactions0
          /\ accounts = hist.accounts0

C12_Witness ==
    /\ Parsed
    /\ Len(GivenTxs) = 2
    /\ IsSoleTransfer(GivenTxs[1])
    /\ GivenTxs[2].encoding # "Json"
    /\ hist.unparsed = {WindowFirst}
    /\ transactions = {OldTransactionRow}

GivenAllJson == \A i \in 1..Len(GivenTxs) : GivenTxs[i].encoding = "Json"

\* the slot's writes are over and the next slot's fetch has begun
SlotOver == pc = "fetch" /\ slot = WindowFirst + 1

\* parse_block's output is in hand
InHand == IsSome(parse_result)

\* the output holds the transactions of txs at the positions S, in their order
HoldsInOrder(out, txs, S) ==
    /\ Len(out) = Cardinality(S)
    /\ \A i \in S :
          LET j == Cardinality({k \in S : k <= i}) IN
          out[j][1] = txs[i].signatures[1] /\ out[j][2] = txs[i]

\* the transaction write that a position of the write log belongs to
EntryWriteBefore(log, j) ==
    {k \in 1..j : log[k].table = "transactions"
                  /\ \A l \in (k + 1)..j : log[l].table # "transactions"}

\* every write of the log is for a transaction among `entered`
WritesOnlyFor(log, entered) ==
    \A j \in 1..Len(log) :
       /\ EntryWriteBefore(log, j) # {}
       /\ \A k \in EntryWriteBefore(log, j) :
             /\ \E t \in entered :
                   /\ log[k].record.raw_transaction = to_string(t)
                   /\ log[k].record.transaction_id = t.signatures[1]
             /\ log[j].table = "accounts" =>
                   log[j].record.related_transactions = <<log[k].record.transaction_id>>

\* each of the first n transactions of `entered` has a row of this slot
RowsFor(entered, n) ==
    \A j \in 1..n :
       \E row \in transactions :
          /\ row.transaction_id = entered[j][1]
          /\ row.block_height = slot

WritesOf(entry) ==
    IF IsSome(entry[3])
    THEN <<<<"transactions", entry[1]>>,
           <<"accounts", Unwrap(entry[3]).sender>>,
           <<"accounts", Unwrap(entry[3]).receiver>>>>
    ELSE <<<<"transactions", entry[1]>>>>

RECURSIVE WritesOfFirst(_, _)
WritesOfFirst(entries, n) ==
    IF n = 0 THEN <<>> ELSE WritesOfFirst(entries, n - 1) \o WritesOf(entries[n])

\* <<table, key>> of the writes issued for the slot so far
WritesIssued ==
    [j \in 1..Len(hist.write_log) |->
        <<hist.write_log[j].table,
          IF hist.write_log[j].table = "transactions"
          THEN hist.write_log[j].record.transaction_id
          ELSE hist.write_log[j].record.account_id>>]

IsPrefix(a, b) == Len(a) <= Len(b) /\ \A j \in 1..Len(a) : a[j] = b[j]

\* C15: while the entries of a parsed block are written, the writes issued so
\* far are, entry by entry in output order, one transaction upsert followed,
\* if and only if the entry has details, by the sender's and then the
\* receiver's account upsert; before entry k is begun the log is exactly the
\* writes of entries 1..k-1, and when the loop is over those of all entries.
C15_WritesPerEntry ==
    (InHand /\ pc \in {"insert_transaction", "insert_account", "done"}) =>
        LET all == WritesOfFirst(parsed_response, Len(parsed_response))
            before == WritesOfFirst(parsed_response, tx_index - 1)
            log == hist.write_log
        IN  /\ IsPrefix(WritesIssued, all)
            /\ \A j \in 1..(Len(log) - 1) : log[j].ok
            /\ pc = "insert_transaction" =>
                  /\ WritesIssued = before
                  /\ \A j \in 1..Len(log) : log[j].ok
            /\ pc = "insert_account" =>
                  /\ IsSome(parsed_response[tx_index][3])
                  /\ WritesIssued =
                        before \o SubSeq(WritesOf(parsed_response[tx_index]), 1,
                                         account_index)
                  /\ \A j \in 1..Len(log) : log[j].ok
            /\ pc = "done" =>
                  /\ IsSome(hist.write_failure)
                  /\ Len(log) >= 1
                  /\ ~log[Len(log)].ok

C15_Witness ==
    /\ InHand
    /\ pc = "insert_transaction"
    /\ tx_index = 3
    /\ Len(parsed_response) = 2
    /\ parsed_response[1][3] = None
    /\ IsSome(parsed_response[2][3])
    /\ WritesIssued = <<<<"transactions", "sig3">>, <<"transactions", "sig2">>,
                        <<"accounts", "acc2">>, <<"accounts", "acc1">>>>

\* no entry is half written: the loop is between two entries, or over, and no
\* account write has failed
BetweenEntries ==
    /\ pc # "insert_account"
    /\ ~(ReturnedErr /\ Unwrap(result).e = "accounts: write failed")

\* C16: between entries, every account that was sender or receiver of a
\* transfer written in full has one row, with estimated_balance 0 and
\* related_transactions the one-element list of the id of the last such
\* transfer; every other row is as it was before the sweep.
C16_AccountRowIsLastTransfer ==
    BetweenEntries =>
        LET touched == {p[1] : p \in hist.last_transfer} IN
        /\ \A p \in hist.last_transfer :
              {row \in accounts : row.account_id = p[1]} =
                 {[account_id |-> p[1], estimated_balance |-> 0,
                   related_transactions |-> to_string(<<p[2]>>)]}
        /\ {row \in accounts : row.account_id \notin touched} =
              {row \in hist.accounts0 : row.account_id \notin touched}

C16_Witness ==
    /\ SlotOver
    /\ hist.accounts0 = {OldAccountRow}
    /\ hist.last_transfer = {<<"acc1", "sig1">>, <<"acc2", "sig3">>, <<"acc3", "sig3">>}
    /\ Cardinality(accounts) = 3

(***************************************************************************)
(* The upserts (under SpecSlot).                                           *)
(***************************************************************************)
\* the step issues a store write that succeeds
Upserts ==
    /\ Len(hist'.write_log) = Len(hist.write_log) + 1
    /\ hist'.write_log[Len(hist'.write_log)].ok

\* the record of that write, as the row it is stored in
UpsertedRow ==
    LET w == hist'.write_log[Len(hist'.write_log)] IN
    IF w.table = "transactions"
    THEN w.record
    ELSE [account_id |-> w.record.account_id,
          estimated_balance |-> w.record.estimated_balance,
          related_transactions |-> to_string(w.record.related_transactions)]

\* C17: a successful upsert of record R leaves exactly one row with R's key,
\* equal to R field by field, leaves the rows of every other key and the
\* other table as they were, and changes nothing when R's row was already
\* there.
C17_UpsertReplacesByKey ==
    [][Upserts =>
          IF hist'.write_log[Len(hist'.write_log)].table = "transactions"
          THEN /\ {row \in transactions' :
                      row.transaction_id = UpsertedRow.transaction_id} = {UpsertedRow}
               /\ {row \in transactions' :
                      row.transaction_id # UpsertedRow.transaction_id} =
                  {row \in transactions :
                      row.transaction_id # UpsertedRow.transaction_id}
               /\ UpsertedRow \in transactions => transactions' = transactions
               /\ accounts' = accounts
          ELSE /\ {row \in accounts' :
                      row.account_id = UpsertedRow.account_id} = {UpsertedRow}
               /\ {row \in accounts' :
                      row.account_id # UpsertedRow.account_id} =
                  {row \in accounts :
                      row.account_id # UpsertedRow.account_id}
               /\ UpsertedRow \in accounts => accounts' = accounts
               /\ transactions' = transactions]_vars

\* a transfer written twice over a store that held a row of its id and a row
\* of its sender: the first round replaced both, the second changed nothing
C17_Witness ==
    /\ InHand
    /\ pc = "insert_transaction"
    /\ tx_index = 3
    /\ Len(hist.write_log) = 6
    /\ \A j \in 1..3 : hist.write_log[j] = hist.write_log[j + 3]
    /\ hist.transactions0 = {OldTransactionRow}
    /\ hist.accounts0 = {OldAccountRow}
    /\ transactions = {hist.write_log[1].record}
    /\ Cardinality(accounts) = 2

(***************************************************************************)
(* The rows of an ingested transaction (under Spec).                       *)
(***************************************************************************)
\* the row the claim expects for an entry of the block in hand: the block's
\* time, or 0 when the block has none
RowOf(entry) ==
    [transaction_id |-> entry[1],
     timestamp |-> IF IsSome(Unwrap(block).block_time)
                   THEN Unwrap(Unwrap(block).block_time)
                   ELSE 0,
     block_height |-> slot,
     raw_transaction |-> to_string(entry[2])]

HasAccountRow(account, id) ==
    \E row \in accounts :
       row.account_id = account /\ row.related_transactions = to_string(<<id>>)

\* C18: directly after the writes of an entry of the block fetched at `slot`,
\* the transactions table has exactly one row of the entry's first signature,
\* with block_height = slot, timestamp the block's time and the transaction
\* as JSON text; when the entry has details the accounts table has a row for
\* the sender and one for the receiver, each listing that id.  The
\* transaction row is there as soon as its own write is done.
C18_RowsAfterIngestion ==
    /\ (InHand /\ pc = "insert_transaction" /\ tx_index >= 2) =>
          LET entry == parsed_response[tx_index - 1] IN
          /\ {row \in transactions : row.transaction_id = entry[1]} = {RowOf(entry)}
          /\ IsSome(entry[3]) =>
                /\ HasAccountRow(Unwrap(entry[3]).sender, entry[1])
                /\ HasAccountRow(Unwrap(entry[3]).receiver, entry[1])
    /\ (InHand /\ pc = "insert_account") =>
          LET entry == parsed_response[tx_index] IN
          /\ {row \in transactions : row.transaction_id = entry[1]} = {RowOf(entry)}
          /\ account_index = 2 => HasAccountRow(Unwrap(entry[3]).sender, entry[1])

C18_Witness ==
    /\ InHand
    /\ pc = "insert_transaction"
    /\ tx_index = 2
    /\ slot = 2
    /\ Unwrap(block).block_time = Some(1720421680)
    /\ IsSome(parsed_response[1][3])
    /\ hist.transactions0 = {OldTransactionRow}
    /\ \E row \in transactions :
          /\ row.transaction_id = "sig1"
          /\ row.block_height = 2
          /\ row.timestamp = 1720421680
    /\ HasAccountRow("acc1", "sig1")
    /\ HasAccountRow("acc2", "sig1")

(***************************************************************************)
(* The lock (under SpecServe).                                             *)
(***************************************************************************)
Writing == pc \in {"insert_transaction", "insert_account"}

\* C19: the sweep holds the lock exactly while it is at the writes of a slot:
\* then the slot's block is fetched and parsed, the fetch call is over and
\* every write issued under this guard is for this slot; it does not hold it
\* while fetching, sleeping, parsing or waiting for the lock, nor once
\* aggregate_blocks has returned, with Ok or with an error.
C19_LockOnlyDuringWrites ==
    /\ lock = "sweep" <=> Writing
    /\ Writing =>
          /\ IsSome(block)
          /\ InHand
          /\ Unwrap(parse_result).ok
          /\ hist.call_log = <<>>
          /\ slot \in hist.processed
          /\ \A j \in 1..Len(hist.write_log) :
                hist.write_log[j].table = "transactions" =>
                   hist.write_log[j].record.block_height = slot
    /\ pc \in {"epoch", "fetch", "sleep", "fetch_failed", "parse", "lock"} =>
          /\ lock # "sweep"
          /\ hist.write_log = <<>>
    /\ pc = "done" => lock # "sweep" /\ (ReturnedOk \/ ReturnedErr)

\* a handler holds the lock while the sweep, its first slot written, sleeps
\* before a retry
C19_Witness ==
    /\ pc = "sleep"
    /\ slot = WindowFirst + 1
    /\ hist.written = {WindowFirst}
    /\ lock = "handler"

\* the parties that act as holders of the guard
Holders ==
    (IF Writing THEN {<<"sweep", 0>>} ELSE {})
        \cup {<<"handler", i>> : i \in {h \in Handlers :
                                         handlers[h].pc \in {"holding", "looked_up"}}}

\* C20: at most one party acts as holder of the connection, and the lock
\* says which kind; no statement was issued by a party without the lock; a
\* handler that holds the lock has made no lookup before its only one and
\* exactly one after it, and has its response then.
C20_OneHolder ==
    /\ Cardinality(Holders) <= 1
    /\ lock = "free" <=> Holders = {}
    /\ lock = "sweep" <=> <<"sweep", 0>> \in Holders
    /\ lock = "handler" <=> \E i \in Handlers : <<"handler", i>> \in Holders
    /\ hist.unguarded = {}
    /\ \A i \in Handlers :
          /\ handlers[i].pc \in {"idle", "waiting", "holding"} =>
                hist.lookups[i] = 0 /\ handlers[i].response = None
          /\ handlers[i].pc = "looked_up" =>
                hist.lookups[i] = 1 /\ IsSome(handlers[i].response)

\* a handler has its answer and still holds the lock that another handler
\* and the sweep are waiting for
C20_Witness ==
    /\ pc = "lock"
    /\ \E i, j \in Handlers :
          /\ handlers[i].pc = "looked_up"
          /\ Unwrap(handlers[i].response).status = 200
          /\ handlers[j].pc = "waiting"
    /\ hist.written # {}

\* the sweep is away from the connection: it neither holds the lock nor
\* waits for it
SweepAway ==
    /\ lock # "sweep"
    /\ \A j \in 1..Len(waiters) : waiters[j] # SweepTask

\* the tasks in line for the lock are the handlers that wait and the sweep
\* when it waits, each once
InLine ==
    /\ \A i \in Handlers :
          Cardinality({j \in 1..Len(waiters) : waiters[j] = i})
             = IF handlers[i].pc = "waiting" THEN 1 ELSE 0
    /\ Cardinality({j \in 1..Len(waiters) : waiters[j] = SweepTask})
          = IF pc = "lock" THEN 1 ELSE 0

\* a request has been received and has no response yet
Pending(i) == handlers[i].pc \in {"waiting", "holding"}

\* the request has its response
Served(i) == handlers[i].pc = "looked_up" /\ IsSome(handlers[i].response)

IsPowerOfTwo(w, k) ==
    /\ k + 1 <= U64Bits
    /\ \A i \in 1..U64Bits : w[i] = IF i = k + 1 THEN 1 ELSE 0

\* C28: for every budget 0..255 and every pattern of failures the attempt
\* counter stays within the budget, wait_time *= 2 never leaves the u64
\* range, and the sleep before the k-th retry lasts 2^k seconds.
C28_AsStated ==
    /\ attempts <= config.retry_attempts
    /\ ~hist.overflowed
    /\ pc # "panicked"
    /\ pc = "sleep" => IsPowerOfTwo(wait_time, attempts)

\* what does hold: the attempt counter stays within the budget and the u8,
\* the sleeps before the retries 1..63 last 2^k seconds, and the first
\* product to leave the range is the one after the 63rd sleep
C28_InRangeUpTo63 ==
    /\ attempts <= config.retry_attempts
    /\ attempts <= U8Max
    /\ (pc = "sleep" /\ attempts <= U64Bits - 1) =>
          IsPowerOfTwo(wait_time, attempts) /\ ~hist.overflowed
    /\ (pc = "fetch" /\ attempts <= U64Bits - 2) =>
          IsPowerOfTwo(wait_time, attempts + 1) /\ ~hist.overflowed
    /\ hist.overflowed => attempts >= U64Bits - 1

\* the 64th retry of a build that wraps sleeps for 0 seconds
C28_WrappedToZero ==
    /\ pc = "sleep"
    /\ attempts = U64Bits
    /\ wait_time = u64(0)

\* get_block calls of the get_block_with_retry call for the current slot
CallsThisSlot ==
    Cardinality({j \in 1..Len(hist.call_log) : hist.call_log[j][1] = "get_block"})

LastUpsert(q) ==
    {u \in hist.upserted :
        /\ u.table = (IF q.kind = "transaction" THEN "transactions" ELSE "accounts")
        /\ u.id = q.id}

\* C23: a handler that made its lookup has a 200 response carrying the record
\* of the last upsert for the id asked for, field by field, or a 404 response
\* when no record was ever upserted for that id, or the 500 response of a
\* failed query; and no step of a handler changes the tables.
C23_LookupReturnsLastUpsert ==
    /\ [](\A i \in Handlers :
             handlers[i].pc = "looked_up" =>
                LET q == Unwrap(handlers[i].query)
                    response == Unwrap(handlers[i].response)
                IN  /\ response.status \in {200, 404, 500}
                    /\ Cardinality(LastUpsert(q)) <= 1
                    /\ response.status = 200 =>
                          \E u \in LastUpsert(q) : response.json = Some(u.record)
                    /\ response.status = 404 =>
                          LastUpsert(q) = {} /\ response.json = None
                    /\ response.status = 500 => response.json = None)
    /\ [][handlers' # handlers => UNCHANGED <<transactions, accounts>>]_vars

\* one request is answered with the account record the sweep upserted, its
\* related_transactions a list of one id
C23_Witness ==
    \E i \in Handlers :
       /\ handlers[i].pc = "looked_up"
       /\ Unwrap(handlers[i].query).kind = "account"
       /\ Unwrap(handlers[i].response).status = 200
       /\ Unwrap(Unwrap(handlers[i].response).json).related_transactions = <<"sig1">>
       /\ Unwrap(Unwrap(handlers[i].response).json).estimated_balance = 0

\* the sweep started on an empty store
StartedEmpty == hist.transactions0 = {} /\ hist.accounts0 = {}

\* the ids an account row lists
RelatedOf(row) == from_str(row.related_transactions).v

\* C24: when the sweep started on an empty store, at every point of it, its
\* return after a failed write included, every id an account row lists in
\* related_transactions is the key of a row of the transactions table.
C24_RelatedTransactionsStored ==
    StartedEmpty =>
        \A row \in accounts :
           /\ from_str(row.related_transactions).ok
           /\ \A j \in 1..Len(RelatedOf(row)) :
                 \E t \in transactions : t.transaction_id = RelatedOf(row)[j]

\* the sweep has returned the error of a failed write of its second slot and
\* account rows of two transfers are in the store
C24_Witness ==
    /\ StartedEmpty
    /\ pc = "done"
    /\ ReturnedErr
    /\ IsSome(hist.write_failure)
    /\ Len(hist.fetched) >= 2
    /\ Cardinality({RelatedOf(row) : row \in accounts}) >= 2

\* handler i has the connection: what it reads is the store as it is now
Observes(i) == handlers[i].pc \in {"holding", "looked_up"}

\* the transfer of the transaction a row of the sweep holds, None without one
TransferOf(row) ==
    LET parsed == parse_transaction(from_str(row.raw_transaction).v, 0) IN
    IF parsed.ok THEN parsed.v ELSE None

\* C25: a handler that has the connection never finds the sweep in the middle
\* of its writes; while no write has failed it finds it between two slots, no
\* write of the slot in hand issued, so that every slot is written in full or
\* not at all; and every transaction row of the sweep that holds a transfer,
\* the rows of a slot whose write failed apart, comes with a row of its sender
\* and a row of its receiver.
C25_SlotsSeenWhole ==
    \A i \in Handlers :
       Observes(i) =>
          /\ ~Writing
          /\ ~IsSome(hist.write_failure) =>
                /\ hist.write_log = <<>>
                /\ hist.written \subseteq hist.processed
                /\ slot \in hist.written => pc = "done" /\ ReturnedOk
          /\ IsSome(hist.write_failure) => pc = "done" /\ ReturnedErr
          /\ \A row \in NewTransactionRows :
                (/\ IsSome(TransferOf(row))
                 /\ IsSome(hist.write_failure) => row.block_height # slot) =>
                   /\ \E a \in accounts :
                         a.account_id = Unwrap(TransferOf(row)).sender
                   /\ \E a \in accounts :
                         a.account_id = Unwrap(TransferOf(row)).receiver

\* a handler reads the store between the two slots of the window, with the
\* transfer of the first slot and both its account rows in it
C25_Witness ==
    /\ \E i \in Handlers : handlers[i].pc = "looked_up"
    /\ hist.accounts0 = {}
    /\ pc \in {"fetch", "sleep", "parse", "lock"}
    /\ hist.written = {WindowFirst}
    /\ slot = WindowFirst + 1
    /\ \E row \in NewTransactionRows : IsSome(TransferOf(row))
    /\ Cardinality(accounts) = 2

TransactionIds(table) == {row.transaction_id : row \in table}
AccountIds(table) == {row.account_id : row \in table}

\* the rows that the upserts noted so far leave: per key, the last record
EffectOfUpserts(table) ==
    {IF table = "transactions"
     THEN u.record
     ELSE [account_id |-> u.record.account_id,
           estimated_balance |-> u.record.estimated_balance,
           related_transactions |-> to_string(u.record.related_transactions)] :
        u \in {n \in hist.upserted : n.table = table}}

\* a write of the sweep fails in this step
WriteFails == ~IsSome(hist.write_failure) /\ IsSome(hist'.write_failure)

\* C26: no step of the sweep removes a key from either table; the step of a
\* failing write changes neither table and ends the sweep with that error,
\* after which nothing changes; and at every point, after an abort too, the
\* tables hold exactly the effect of the writes that succeeded, which on an
\* abort are all the writes issued before the failing one.
C26_NoRollback ==
    /\ [](/\ transactions = EffectOfUpserts("transactions")
          /\ accounts = EffectOfUpserts("accounts")
          /\ IsSome(hist.write_failure) =>
                /\ pc = "done" /\ ReturnedErr
                /\ transactions = Unwrap(hist.write_failure).transactions
                /\ accounts = Unwrap(hist.write_failure).accounts
                /\ \A j \in 1..Len(hist.write_log) :
                      hist.write_log[j].ok <=> j < Len(hist.write_log))
    /\ [][/\ TransactionIds(transactions) \subseteq TransactionIds(transactions')
          /\ AccountIds(accounts) \subseteq AccountIds(accounts')
          /\ WriteFails =>
                /\ UNCHANGED <<transactions, accounts>>
                /\ hist'.upserted = hist.upserted
                /\ pc' = "done"
          /\ pc = "done" => UNCHANGED <<transactions, accounts>>]_vars

\* the sweep was aborted by a failed account write of its second slot: the
\* rows of the first slot and the transaction row written just before are
\* in the store
C26_Witness ==
    /\ pc = "done"
    /\ ReturnedErr
    /\ Unwrap(result).e = "accounts: write failed"
    /\ hist.transactions0 = {}
    /\ Len(hist.fetched) = 2
    /\ Len(hist.write_log) = 2
    /\ Cardinality(transactions) = 2
    /\ Cardinality(accounts) = 2

\* The store a sweep that meets no failed write leaves, computed slot by slot
\* and entry by entry from the store it starts on and the blocks of the node.
WriteEntry(store, entry, b, s) ==
    [transactions |->
         insert_or_update_transaction(store.transactions,
                                      transaction_record(entry, b, s)),
     accounts |->
         IF IsSome(entry[3])
         THEN insert_or_update_account(
                  insert_or_update_account(store.accounts, account_record(entry, 1)),
                  account_record(entry, 2))
         ELSE store.accounts]

RECURSIVE WriteEntries(_, _, _, _, _)
WriteEntries(store, entries, k, b, s) ==
    IF k > Len(entries)
    THEN store
    ELSE WriteEntries(WriteEntry(store, entries[k], b, s), entries, k + 1, b, s)

SweepSlot(store, outcome, s) ==
    IF IsSome(outcome) /\ parse_block(Unwrap(outcome)).ok
    THEN WriteEntries(store, parse_block(Unwrap(outcome)).v, 1, Unwrap(outcome), s)
    ELSE store

RECURSIVE SweepFrom(_, _, _, _)
SweepFrom(store, chain, s, last) ==
    IF s > last
    THEN store
    ELSE SweepFrom(SweepSlot(store, chain[s], s), chain, s + 1, last)

Uninterrupted(txs, accs) ==
    SweepFrom([transactions |-> txs, accounts |-> accs], hist.chain,
              WindowFirst, WindowLast)

Store == [transactions |-> transactions, accounts |-> accounts]

\* C27: a sweep that returns Ok leaves the store of the uninterrupted sweep
\* over what it started on; a second sweep of the same window with the same
\* blocks and failed fetches, after a first that returned Ok, ends on the
\* store the first ended on; and after a first that a failed write aborted,
\* a second that returns Ok ends on the store an uninterrupted sweep would
\* have left on the store the first began with.
C27_RerunIdempotent ==
    (pc = "done" /\ ReturnedOk) =>
        /\ Store = Uninterrupted(hist.transactions0, hist.accounts0)
        /\ hist.run = 2 =>
              LET first == Unwrap(hist.first_run) IN
              /\ first.ok =>
                    /\ transactions = first.transactions
                    /\ accounts = first.accounts
              /\ Store = Uninterrupted(first.transactions0, first.accounts0)

\* the second sweep returned Ok after a first one that was aborted with rows
\* of its first slot written, on a window of two transfers
C27_Witness ==
    /\ pc = "done"
    /\ ReturnedOk
    /\ hist.run = 2
    /\ ~Unwrap(hist.first_run).ok
    /\ Unwrap(hist.first_run).transactions # Unwrap(hist.first_run).transactions0
    /\ Unwrap(hist.first_run).transactions # transactions
    /\ Cardinality(transactions) >= 2

====
